---- MODULE Spec2Model ----
(***************************************************************************)
(* A model of slict/core.py: the slice predicate (key_in_slice,            *)
(* key_from_slice), the view Slict and the cached view CachedSlict.        *)
(*                                                                         *)
(* Python objects are modelled as follows.                                 *)
(*   - an element of a key or of a slice specification is a record with    *)
(*     the fields isSlice, val, start, stop: Val(v) is the plain value v,  *)
(*     slice(a, b) is the Python object slice(a, b, None);                 *)
(*   - a key is a record [isTuple, items]: Tuple(s) is the Python tuple    *)
(*     holding the elements of s, Scalar(e) is the bare object e (its      *)
(*     items field holds the one object, as `(k,)` would);                 *)
(*   - a mapping is a function from keys to stored values;                 *)
(*   - the result of a call is a record with a field kind, "IndexError"    *)
(*     and "KeyError" being the exceptions the call can raise.             *)
(*                                                                         *)
(* A view is its attributes d and sl (dim is len(sl)) and, for a           *)
(* CachedSlict, key_parts.  The attributes locs, pins and bounds, which    *)
(* __init__ fills and no method reads, are left out.                       *)
(***************************************************************************)
EXTENDS Integers, Sequences, FiniteSets, TLC

\* ------------------------------------------------------------------ bounds
\* plain values at a key position are 0 .. NVals-1
NVals == 2
\* slice bounds are None or 0 .. MaxBound
MaxBound == 1
\* a backing mapping holds at most MaxItems entries
MaxItems == 2
\* dimension counts of the modelled mappings
Dims == {1, 2}
\* lengths of the specifications the slice predicate is applied to
PredicateDims == {1, 2, 3}

\* ------------------------------------------------------------ Python data
None == -1

Val(v) == [isSlice |-> FALSE, val |-> v, start |-> None, stop |-> None]

slice(a, b) == [isSlice |-> TRUE, val |-> None, start |-> a, stop |-> b]

Tuple(s) == [isTuple |-> TRUE, items |-> s]

Scalar(e) == [isTuple |-> FALSE, items |-> <<e>>]

\* `if not isinstance(k, tuple): k = (k,)`
AsTuple(k) == k.items

IndexError == [kind |-> "IndexError"]

KeyError == [kind |-> "KeyError"]

\* ------------------------------------------------------- slice predicate
\* key_in_slice with the upper bound taken as inclusive
RECURSIVE KeyInSliceFrom_StopInclusive(_, _, _)
KeyInSliceFrom_StopInclusive(k, s, i) ==
    IF i > Len(s) THEN "True"
    ELSE IF i > Len(k) THEN "IndexError"
    ELSE IF (~s[i].isSlice) /\ k[i] # s[i] THEN "False"
    ELSE IF s[i].isSlice /\ s[i].start # None /\ k[i].val < s[i].start THEN "False"
    ELSE IF s[i].isSlice /\ s[i].stop # None /\ k[i].val > s[i].stop THEN "False"
    ELSE KeyInSliceFrom_StopInclusive(k, s, i + 1)

RECURSIVE KeyInSliceFrom(_, _, _)
KeyInSliceFrom(k, s, i) ==
    IF i > Len(s) THEN "True"
    ELSE IF i > Len(k) THEN "IndexError"
    ELSE IF (~s[i].isSlice) /\ k[i] # s[i] THEN "False"
    ELSE IF s[i].isSlice /\ s[i].start # None /\ k[i].val < s[i].start THEN "False"
    ELSE IF s[i].isSlice /\ s[i].stop # None /\ k[i].val >= s[i].stop THEN "False"
    ELSE KeyInSliceFrom(k, s, i + 1)

\* "True", "False" or "IndexError" (a key shorter than s)
key_in_slice(k, s) == KeyInSliceFrom(AsTuple(k), s, 1)

RECURSIVE KeyFromSliceAns(_, _, _)
KeyFromSliceAns(k, s, i) ==
    IF i > Len(s) THEN <<>>
    ELSE IF s[i].isSlice
         THEN <<k[i]>> \o KeyFromSliceAns(k, s, i + 1)
         ELSE KeyFromSliceAns(k, s, i + 1)

key_from_slice(k, s) ==
    IF \E i \in 1..Len(s) : s[i].isSlice /\ i > Len(AsTuple(k)) THEN IndexError
    ELSE
    LET ans == KeyFromSliceAns(AsTuple(k), s, 1) IN
    IF Len(ans) > 1 THEN [kind |-> "ok", key |-> Tuple(ans)]
    ELSE IF Len(ans) = 1 THEN [kind |-> "ok", key |-> Scalar(ans[1])]
    ELSE IndexError

\* ------------------------------------------------------------------ Slict
Max(a, b) == IF a >= b THEN a ELSE b

Min(a, b) == IF a <= b THEN a ELSE b

\* slice composition that keeps the smaller lower bound
Intersect_Widen(cur, new) ==
    LET start == IF cur.start = None /\ new.start = None THEN None
                 ELSE IF cur.start = None /\ new.start # None THEN new.start
                 ELSE IF cur.start # None /\ new.start = None THEN cur.start
                 ELSE Min(cur.start, new.start)
        stop  == IF cur.stop = None /\ new.stop = None THEN None
                 ELSE IF cur.stop = None /\ new.stop # None THEN new.stop
                 ELSE IF cur.stop # None /\ new.stop = None THEN cur.stop
                 ELSE Min(cur.stop, new.stop)
    IN slice(start, stop)

\* the entry _full_key appends for a ranged position addressed with a slice
Intersect(cur, new) ==
    LET start == IF cur.start = None /\ new.start = None THEN None
                 ELSE IF cur.start = None /\ new.start # None THEN new.start
                 ELSE IF cur.start # None /\ new.start = None THEN cur.start
                 ELSE Max(cur.start, new.start)
        stop  == IF cur.stop = None /\ new.stop = None THEN None
                 ELSE IF cur.stop = None /\ new.stop # None THEN new.stop
                 ELSE IF cur.stop # None /\ new.stop = None THEN cur.stop
                 ELSE Min(cur.stop, new.stop)
    IN slice(start, stop)

\* _full_key letting the caller's entry replace a pin
RECURSIVE FullKeyFrom_Repin(_, _, _, _, _)
FullKeyFrom_Repin(s, key, i, j, full_key) ==
    IF i > Len(s) THEN [kind |-> "ok", items |-> full_key]
    ELSE IF (~s[i].isSlice) /\ j > Len(key)
         THEN FullKeyFrom_Repin(s, key, i + 1, j, Append(full_key, s[i]))
    ELSE IF j > Len(key) THEN IndexError
    ELSE IF ~s[i].isSlice
         THEN FullKeyFrom_Repin(s, key, i + 1, j, Append(full_key, key[j]))
    ELSE IF ~key[j].isSlice
         THEN FullKeyFrom_Repin(s, key, i + 1, j + 1, Append(full_key, key[j]))
    ELSE FullKeyFrom_Repin(s, key, i + 1, j + 1,
                           Append(full_key, Intersect(s[i], key[j])))

RECURSIVE FullKeyFrom(_, _, _, _, _)
FullKeyFrom(s, key, i, j, full_key) ==
    IF i > Len(s) THEN [kind |-> "ok", items |-> full_key]
    ELSE IF ~s[i].isSlice
         THEN FullKeyFrom(s, key, i + 1, j, Append(full_key, s[i]))
    ELSE IF j > Len(key) THEN IndexError
    ELSE IF ~key[j].isSlice
         THEN FullKeyFrom(s, key, i + 1, j + 1, Append(full_key, key[j]))
    ELSE FullKeyFrom(s, key, i + 1, j + 1,
                     Append(full_key, Intersect(s[i], key[j])))

\* Slict._full_key on a view whose specification is s
full_key(s, key) == FullKeyFrom(s, AsTuple(key), 1, 1, <<>>)

\* a lookup that never unwraps the 1-tuple
Unwrap_Never(fk) == Tuple(fk)

\* `if len(full_key) == 1: full_key = full_key[0]`
Unwrap(fk) == IF Len(fk) = 1 THEN Scalar(fk[1]) ELSE Tuple(fk)

\* Slict.__getitem__ and CachedSlict.__getitem__, up to the class of the
\* view they return
getitem(m, s, key) ==
    LET fk == full_key(s, key) IN
    IF fk.kind # "ok" THEN fk
    ELSE IF \A i \in 1..Len(fk.items) : ~fk.items[i].isSlice
         THEN IF Unwrap(fk.items) \in DOMAIN m
              THEN [kind |-> "value", val |-> m[Unwrap(fk.items)]]
              ELSE KeyError
    ELSE [kind |-> "view", sl |-> fk.items]

\* Slict.__contains__
contains(m, s, key) ==
    LET fk == full_key(s, key) IN
    IF fk.kind # "ok" THEN fk
    ELSE LET r == key_in_slice(Unwrap(fk.items), s) IN
         IF r = "IndexError" THEN IndexError
         ELSE [kind |-> "bool",
               val |-> (r = "True" /\ Unwrap(fk.items) \in DOMAIN m)]

\* Slict.full_keys, as the set of the keys it lists
full_keys(m, s) == {k \in DOMAIN m : key_in_slice(k, s) = "True"}

\* Slict.keys, as the set of the projections it lists (the order of the list
\* is the iteration order of the mapping)
Slict_keys(m, s) ==
    IF \E k \in full_keys(m, s) : key_from_slice(k, s).kind # "ok"
    THEN IndexError
    ELSE [kind |-> "list",
          elems |-> {key_from_slice(k, s).key : k \in full_keys(m, s)}]

\* Slict.__init__ without sl: the dimension count and the open specification
InferDim(m) ==
    LET lens == {IF k.isTuple THEN Len(k.items) ELSE 1 : k \in DOMAIN m}
    IN CHOOSE n \in lens : \A x \in lens : x <= n

OpenSpec(m) == [i \in 1..InferDim(m) |-> slice(None, None)]

\* ------------------------------------------------------------ CachedSlict
\* a sort into descending order
RECURSIVE sorted_Descending(_)
sorted_Descending(S) ==
    IF S = {} THEN <<>>
    ELSE LET hi == CHOOSE e \in S : \A x \in S : e.val >= x.val
         IN <<hi>> \o sorted_Descending(S \ {hi})

\* sorted(list(set(...))) of plain values
RECURSIVE sorted(_)
sorted(S) ==
    IF S = {} THEN <<>>
    ELSE LET lo == CHOOSE e \in S : \A x \in S : e.val <= x.val
         IN <<lo>> \o sorted(S \ {lo})

\* the positions of s that hold a slice, in dimension order
RECURSIVE RangedFrom(_, _)
RangedFrom(s, i) ==
    IF i > Len(s) THEN <<>>
    ELSE IF s[i].isSlice THEN <<i>> \o RangedFrom(s, i + 1)
    ELSE RangedFrom(s, i + 1)

Ranged(s) == RangedFrom(s, 1)

\* CachedSlict.update_cache: the new key_parts
update_cache(m, s) ==
    IF Len(s) = 1
    THEN << sorted({key_from_slice(k, s).key.items[1] : k \in full_keys(m, s)}) >>
    ELSE [n \in 1..Len(Ranged(s)) |->
            sorted({k.items[Ranged(s)[n]] : k \in full_keys(m, s)})]

\* itertools.product(*parts): the tuples in the order product yields them
RECURSIVE product(_)
RECURSIVE Prepend(_, _, _)
Prepend(xs, rest, n) ==
    IF n > Len(xs) THEN <<>>
    ELSE [j \in 1..Len(rest) |-> <<xs[n]>> \o rest[j]] \o Prepend(xs, rest, n + 1)

product(parts) ==
    IF Len(parts) = 0 THEN << <<>> >>
    ELSE Prepend(Head(parts), product(Tail(parts)), 1)

\* [f(k) for k in ks if k in self]; a call that raises ends the comprehension
RECURSIVE Comprehend(_, _, _, _, _)
Comprehend(m, s, ks, n, acc) ==
    IF n > Len(ks) THEN [kind |-> "list", seq |-> acc]
    ELSE LET c == contains(m, s, ks[n]) IN
         IF c.kind # "bool" THEN c
         ELSE IF c.val THEN Comprehend(m, s, ks, n + 1, Append(acc, ks[n]))
         ELSE Comprehend(m, s, ks, n + 1, acc)

\* the keys `product(*self.key_parts) if k in self` walks
ProductKeys(m, s, parts) ==
    Comprehend(m, s, [n \in 1..Len(product(parts)) |-> Tuple(product(parts)[n])],
               1, <<>>)

\* [self[k] for k in ks], paired with k when pair is set
RECURSIVE MapGet(_, _, _, _, _, _)
MapGet(m, s, ks, pair, n, acc) ==
    IF n > Len(ks) THEN [kind |-> "list", seq |-> acc]
    ELSE LET g == getitem(m, s, ks[n]) IN
         IF g.kind \in {"IndexError", "KeyError"} THEN g
         ELSE MapGet(m, s, ks, pair, n + 1,
                     Append(acc, IF pair THEN [key |-> ks[n], item |-> g] ELSE g))

\* CachedSlict.keys
CachedSlict_keys(m, s, parts) ==
    IF Len(parts) = 1
    THEN [kind |-> "list", seq |-> [n \in 1..Len(parts[1]) |-> Scalar(parts[1][n])]]
    ELSE ProductKeys(m, s, parts)

\* CachedSlict.values
CachedSlict_values(m, s, parts) ==
    IF Len(parts) = 1
    THEN MapGet(m, s, [n \in 1..Len(parts[1]) |-> Scalar(parts[1][n])], FALSE, 1, <<>>)
    ELSE LET ks == ProductKeys(m, s, parts) IN
         IF ks.kind # "list" THEN ks
         ELSE MapGet(m, s, ks.seq, FALSE, 1, <<>>)

\* CachedSlict.items
CachedSlict_items(m, s, parts) ==
    IF Len(s) = 1
    THEN MapGet(m, s, [n \in 1..Len(parts[1]) |-> Scalar(parts[1][n])], TRUE, 1, <<>>)
    ELSE LET ks == ProductKeys(m, s, parts) IN
         IF ks.kind # "list" THEN ks
         ELSE MapGet(m, s, ks.seq, TRUE, 1, <<>>)

\* ---------------------------------------------------------------- inputs
Elems == {Val(v) : v \in 0..(NVals - 1)}

Bnds == {None} \cup 0..MaxBound

Slices == {slice(a, b) : a \in Bnds, b \in Bnds}

Entries == Elems \cup Slices

\* the keys a backing mapping of dimension count n holds: bare values when
\* n = 1, n-tuples otherwise
BackingKeys(n) ==
    IF n = 1 THEN {Scalar(e) : e \in Elems}
    ELSE {Tuple(t) : t \in [1..n -> Elems]}

\* the value the owner of a mapping stores under k: the views never inspect
\* the stored values, so one value per key is modelled, different keys
\* holding different values
ValueOf(k) ==
    10 * (1 + k.items[1].val) + (IF Len(k.items) > 1 THEN 1 + k.items[2].val ELSE 0)

\* the non-empty mappings of dimension count n (Slict.__init__ takes the
\* maximum over the keys, which an empty mapping does not have)
Mappings(n) ==
    {[k \in K |-> ValueOf(k)] :
        K \in {X \in SUBSET BackingKeys(n) : X # {} /\ Cardinality(X) <= MaxItems}}

\* every slice specification of length n
AllSpecs(n) == [1..n -> Entries]

\* the specifications a view can carry: __getitem__ returns a view only when
\* a slice is left
ViewSpecs(n) == {s \in AllSpecs(n) : \E i \in 1..n : s[i].isSlice}

\* what a caller can pass to address c ranged positions
CallerKeys(c) ==
    {Tuple(t) : t \in [1..c -> Entries]}
        \cup (IF c = 1 THEN {Scalar(e) : e \in Entries} ELSE {})

\* tuples of plain values of length c
PlainKeys(c) ==
    {Tuple(t) : t \in [1..c -> Elems]}
        \cup (IF c = 1 THEN {Scalar(e) : e \in Elems} ELSE {})

NoResult == [kind |-> "none"]

NoArg == Tuple(<<>>)

EmptyMapping == [k \in {} |-> 0]

\* ------------------------------------------------------------------ state
VARIABLES
    d,          \* the backing mapping
    sl,         \* self.sl of the view the caller holds (self.dim is its length)
    key_parts,  \* self.key_parts of that view when it is a CachedSlict
    op,         \* the last call made
    arg,        \* the key that call was given
    res         \* what that call returned or raised

vars == <<d, sl, key_parts, op, arg, res>>

\* ------------------------------------------- the slice predicate, applied
InitPredicate ==
    /\ d = EmptyMapping
    /\ \E n \in PredicateDims : sl \in AllSpecs(n) /\ arg \in BackingKeys(n)
    /\ key_parts = <<>>
    /\ op = "init"
    /\ res = NoResult

CallKeyInSlice ==
    /\ op = "init"
    /\ op' = "key_in_slice"
    /\ res' = [kind |-> "str", val |-> key_in_slice(arg, sl)]
    /\ UNCHANGED <<d, sl, key_parts, arg>>

CallKeyFromSlice ==
    /\ op = "init"
    /\ op' = "key_from_slice"
    /\ res' = key_from_slice(arg, sl)
    /\ UNCHANGED <<d, sl, key_parts, arg>>

NextPredicate == CallKeyInSlice \/ CallKeyFromSlice

SpecPredicate == InitPredicate /\ [][NextPredicate]_vars

\* ------------------------------------------------- key resolution, applied
InitResolve ==
    /\ d = EmptyMapping
    /\ \E n \in Dims : /\ sl \in ViewSpecs(n)
                       /\ arg \in CallerKeys(Len(Ranged(sl)))
    /\ key_parts = <<>>
    /\ op = "init"
    /\ res = NoResult

CallFullKey ==
    /\ op = "init"
    /\ op' = "_full_key"
    /\ res' = full_key(sl, arg)
    /\ UNCHANGED <<d, sl, key_parts, arg>>

NextResolve == CallFullKey

SpecResolve == InitResolve /\ [][NextResolve]_vars

\* ------------------------------------------------ one lookup on one view
\* plain keys of every length but c, up to one more than the dimension count n
MismatchedKeys(n, c) == UNION {PlainKeys(m) : m \in (0..(n + 1)) \ {c}}

\* a view over a mapping, as Slict(d) or Slict.__getitem__ constructs it, and
\* a plain key with one value per ranged position
InitLookup ==
    /\ \E n \in Dims : /\ d \in Mappings(n)
                       /\ sl \in ViewSpecs(n)
                       /\ arg \in PlainKeys(Len(Ranged(sl)))
    /\ key_parts = <<>>
    /\ op = "init"
    /\ res = NoResult

\* the same, the key having too few or too many entries
InitMisuse ==
    /\ \E n \in Dims : /\ d \in Mappings(n)
                       /\ sl \in ViewSpecs(n)
                       /\ arg \in MismatchedKeys(n, Len(Ranged(sl)))
    /\ key_parts = <<>>
    /\ op = "init"
    /\ res = NoResult

\* the same, the key holding plain values and slices, one per ranged position
InitSubslice ==
    /\ \E n \in Dims : /\ d \in Mappings(n)
                       /\ sl \in ViewSpecs(n)
                       /\ arg \in CallerKeys(Len(Ranged(sl)))
    /\ key_parts = <<>>
    /\ op = "init"
    /\ res = NoResult

\* view[arg]
CallGetItem ==
    /\ op = "init"
    /\ op' = "__getitem__"
    /\ res' = getitem(d, sl, arg)
    /\ UNCHANGED <<d, sl, key_parts, arg>>

\* arg in view
CallContains ==
    /\ op = "init"
    /\ op' = "__contains__"
    /\ res' = contains(d, sl, arg)
    /\ UNCHANGED <<d, sl, key_parts, arg>>

NextLookup == CallGetItem \/ CallContains

SpecLookup == InitLookup /\ [][NextLookup]_vars

NextMisuse == CallGetItem \/ CallContains

SpecMisuse == InitMisuse /\ [][NextMisuse]_vars

NextSubslice == CallGetItem

SpecSubslice == InitSubslice /\ [][NextSubslice]_vars

\* -------------------------------------------- a caller using a CachedSlict
\* what the caller of a view with c ranged positions passes to take a
\* sub-view: per position a plain value or the open slice, one slice at least
NarrowKeys(c) ==
    {Tuple(t) : t \in {u \in [1..c -> Elems \cup {slice(None, None)}] :
                          \E i \in 1..c : u[i].isSlice}}

\* CachedSlict(d, sl): a view as CachedSlict.__getitem__ constructs it, its
\* cache built by the constructor (CachedSlict(d) is the case of the open
\* specification)
InitCached ==
    /\ \E n \in Dims : d \in Mappings(n) /\ sl \in ViewSpecs(n)
    /\ key_parts = update_cache(d, sl)
    /\ op = "__init__"
    /\ arg = NoArg
    /\ res = NoResult

\* v = view[key]; a returned view is a new CachedSlict, whose constructor
\* runs update_cache, and the caller goes on with it
CachedGetItem(key) ==
    LET r == getitem(d, sl, key) IN
    /\ op' = "__getitem__"
    /\ res' = r
    /\ sl' = IF r.kind = "view" THEN r.sl ELSE sl
    /\ key_parts' = IF r.kind = "view" THEN update_cache(d, r.sl) ELSE key_parts
    /\ UNCHANGED <<d, arg>>

\* the owner of the mapping stores a value under the new key k
Insert(k) ==
    /\ k \notin DOMAIN d
    /\ Cardinality(DOMAIN d) < MaxItems
    /\ d' = [x \in DOMAIN d \cup {k} |-> IF x = k THEN ValueOf(k) ELSE d[x]]
    /\ op' = "__setitem__"
    /\ res' = NoResult
    /\ UNCHANGED <<sl, key_parts, arg>>

\* the owner of the mapping deletes k
Delete(k) ==
    /\ k \in DOMAIN d
    /\ d' = [x \in DOMAIN d \ {k} |-> d[x]]
    /\ op' = "__delitem__"
    /\ res' = NoResult
    /\ UNCHANGED <<sl, key_parts, arg>>

\* an update_cache that leaves key_parts as they were
UpdateCache_Skip ==
    /\ op' = "update_cache"
    /\ res' = NoResult
    /\ UNCHANGED <<d, sl, key_parts, arg>>

\* view.update_cache()
UpdateCache ==
    /\ key_parts' = update_cache(d, sl)
    /\ op' = "update_cache"
    /\ res' = NoResult
    /\ UNCHANGED <<d, sl, arg>>

NextCached ==
    \/ \E key \in NarrowKeys(Len(Ranged(sl))) : CachedGetItem(key)
    \/ \E k \in BackingKeys(Len(sl)) : Insert(k)
    \/ \E k \in BackingKeys(Len(sl)) : Delete(k)
    \/ UpdateCache

SpecCached == InitCached /\ [][NextCached]_vars

\* ================================================================= claims
\* the positions of s that hold a slice
RangedSet(s) == {i \in 1..Len(s) : s[i].isSlice}

\* the n-th ranged position of s, in dimension order
NthRanged(s, n) ==
    CHOOSE i \in RangedSet(s) : Cardinality({m \in RangedSet(s) : m <= i}) = n

\* how many ranged positions of s lie at or before position i
RankOf(s, i) == Cardinality({m \in RangedSet(s) : m <= i})

\* C1: key_in_slice(k, s) is true exactly when every pinned position of s
\* equals the key's value there and every ranged position holds a value that
\* is >= the lower bound and < the upper bound, an absent bound not
\* constraining.
C1_InSliceIff ==
    op = "key_in_slice" =>
        res.val =
            (IF \A i \in 1..Len(sl) :
                    \/ (~sl[i].isSlice) /\ arg.items[i] = sl[i]
                    \/ /\ sl[i].isSlice
                       /\ sl[i].start = None \/ arg.items[i].val >= sl[i].start
                       /\ sl[i].stop = None \/ arg.items[i].val < sl[i].stop
             THEN "True" ELSE "False")

\* a key accepted by a specification with a pin between two ranges, one of
\* them bounded on both sides
C1_Witness ==
    /\ op = "key_in_slice"
    /\ res.val = "True"
    /\ Len(sl) = 3
    /\ sl[1].isSlice /\ sl[1].start # None /\ sl[1].stop # None
    /\ ~sl[2].isSlice
    /\ sl[3].isSlice

\* C5: key_from_slice(k, s) returns the bare value k[i] when exactly one
\* position i of s is a range, and otherwise a tuple as long as the number of
\* ranged positions, holding the key's values at those positions in order.
C5_Projection ==
    op = "key_from_slice" =>
        /\ res.kind = "ok"
        /\ IF Cardinality(RangedSet(sl)) = 1
           THEN /\ ~res.key.isTuple
                /\ res.key.items[1] = arg.items[NthRanged(sl, 1)]
           ELSE /\ res.key.isTuple
                /\ Len(res.key.items) = Cardinality(RangedSet(sl))
                /\ \A n \in 1..Len(res.key.items) :
                      res.key.items[n] = arg.items[NthRanged(sl, n)]

\* the larger of the bounds present among a and b, None when both are absent
LowerOf(a, b) ==
    LET P == {a, b} \ {None} IN
    IF P = {} THEN None ELSE CHOOSE m \in P : \A x \in P : x <= m

\* the smaller of the bounds present among a and b, None when both are absent
UpperOf(a, b) ==
    LET P == {a, b} \ {None} IN
    IF P = {} THEN None ELSE CHOOSE m \in P : \A x \in P : m <= x

\* C3: _full_key walks the caller's entries in order, one per ranged
\* position of the view's specification, skipping the pinned ones; a ranged
\* position addressed with a range [l2, u2) becomes the range
\* [max(l1, l2), min(u1, u2)), an absent bound being unbounded, and a ranged
\* position addressed with a plain value becomes that value.
C3_Intersection ==
    op = "_full_key" =>
        /\ res.kind = "ok"
        /\ Len(res.items) = Len(sl)
        /\ \A i \in RangedSet(sl) :
              LET given == arg.items[RankOf(sl, i)] IN
              IF given.isSlice
              THEN res.items[i] = slice(LowerOf(sl[i].start, given.start),
                                        UpperOf(sl[i].stop, given.stop))
              ELSE res.items[i] = given

\* a view with a pin before a range [l1, u1), sliced by [l2, u2) with
\* l1 < l2 and u1 < u2
C3_Witness ==
    /\ op = "_full_key"
    /\ Len(sl) = 2
    /\ ~sl[1].isSlice
    /\ sl[2].isSlice /\ arg.items[1].isSlice
    /\ sl[2].start # None /\ sl[2].start < arg.items[1].start
    /\ sl[2].stop # None /\ sl[2].stop < arg.items[1].stop
    /\ res.items[2] = slice(arg.items[1].start, sl[2].stop)

\* C8: a position that is a pin in a view's specification is the same pin in
\* the specification _full_key resolves for any key, hence in every view
\* derived by sub-slicing.
C8_PinsKept ==
    op = "_full_key" =>
        /\ res.kind = "ok"
        /\ \A i \in 1..Len(sl) : (~sl[i].isSlice) => res.items[i] = sl[i]

\* a view with a pin is sub-sliced and a view results (a slice is left)
C8_Witness ==
    /\ op = "_full_key"
    /\ res.kind = "ok"
    /\ \E i \in 1..Len(sl) : ~sl[i].isSlice
    /\ \E i \in 1..Len(sl) : res.items[i].isSlice /\ res.items[i] # sl[i]

\* the full pinned tuple of a plain key: the view's pins, and the key's
\* values at the ranged positions
PinnedTuple(s, key) ==
    [i \in 1..Len(s) |-> IF s[i].isSlice THEN key.items[RankOf(s, i)] ELSE s[i]]

\* the key a lookup of the full pinned tuple t uses
LookupKey(t) == IF Len(t) = 1 THEN Scalar(t[1]) ELSE Tuple(t)

C6_MismatchRejected ==
    op \in {"__getitem__", "__contains__"} =>
        res.kind \in {"IndexError", "KeyError"}

\* C9: every key listed by full_keys() of a view returned by get is listed by
\* full_keys() of the view it was taken from.
C9_Narrower ==
    (op = "__getitem__" /\ res.kind = "view") =>
        full_keys(d, res.sl) \subseteq full_keys(d, sl)

\* the cache of the view was built by the last call: the constructor
\* (CachedSlict(...) or the sub-view __getitem__ returned) or update_cache
FreshCache == op \in {"__init__", "__getitem__", "update_cache"}

\* a < b for two keys of one shape: lexicographic on tuples
LexLess(a, b) ==
    \E i \in 1..Len(a.items) :
        /\ a.items[i].val < b.items[i].val
        /\ \A j \in 1..(i - 1) : a.items[j] = b.items[j]

\* C2: right after construction or update_cache, CachedSlict.keys() is
\* strictly increasing and holds, as a set, exactly the projected keys
\* Slict.keys() lists for the same mapping and specification.
C2_KeysSortedExact ==
    FreshCache =>
        LET ck == CachedSlict_keys(d, sl, key_parts)
            sk == Slict_keys(d, sl)
        IN /\ ck.kind = "list" /\ sk.kind = "list"
           /\ {ck.seq[n] : n \in 1..Len(ck.seq)} = sk.elems
           /\ \A n \in 1..(Len(ck.seq) - 1) : LexLess(ck.seq[n], ck.seq[n + 1])

\* a view with two ranged positions whose cache product holds a combination
\* that is no key of the mapping, right after update_cache
C2_Witness ==
    /\ op = "update_cache"
    /\ Len(key_parts) = 2
    /\ Len(CachedSlict_keys(d, sl, key_parts).seq) = 2
    /\ Len(product(key_parts)) = 4

\* C7: with a fresh cache, values()[n] is get(keys()[n]) and items()[n] is
\* the pair (keys()[n], get(keys()[n])), for every n.
C7_SameSequence ==
    FreshCache =>
        LET ks == CachedSlict_keys(d, sl, key_parts)
            vs == CachedSlict_values(d, sl, key_parts)
            its == CachedSlict_items(d, sl, key_parts)
        IN /\ ks.kind = "list" /\ vs.kind = "list" /\ its.kind = "list"
           /\ Len(vs.seq) = Len(ks.seq) /\ Len(its.seq) = Len(ks.seq)
           /\ \A n \in 1..Len(ks.seq) :
                 /\ vs.seq[n] = getitem(d, sl, ks.seq[n])
                 /\ its.seq[n] = [key |-> ks.seq[n], item |-> getitem(d, sl, ks.seq[n])]

\* k satisfies the specification s
Satisfies(k, s) ==
    \A i \in 1..Len(s) :
        IF s[i].isSlice
        THEN /\ s[i].start = None \/ k.items[i].val >= s[i].start
             /\ s[i].stop = None \/ k.items[i].val < s[i].stop
        ELSE k.items[i] = s[i]

\* the projection of k under s: its values at the ranged positions of s
Projection(k, s) ==
    LET t == [n \in 1..Cardinality(RangedSet(s)) |-> k.items[NthRanged(s, n)]]
    IN IF Len(t) = 1 THEN Scalar(t[1]) ELSE Tuple(t)

====
